---- MODULE Spec2Model ----
(***************************************************************************)
(* musicburst: summary of the MusicBurst and Source tiers of EAF files.    *)
(* The model covers src/src/musicburst/main.py: OutputRecord (filename     *)
(* derivation, fmt), collect_music_data and the batch loop of main().      *)
(*                                                                         *)
(* Text is a sequence of one-character strings, so that basename, replace  *)
(* and the decimal rendering of a counter are computed as the code         *)
(* computes them.  A CSV row is the sequence of its fields as the writer   *)
(* renders them: '' is the empty text, an int is its decimal text.  The    *)
(* field delimiter only joins the fields of a row and is not modelled.     *)
(***************************************************************************)
EXTENDS Integers, Sequences, FiniteSets

\* ---------------------------------------------------------------- bounds
MaxTime == 1
MaxSegs == 2
MaxFiles == 3
MaxPieces == 3

\* ------------------------------------------------------------- constants
MUSIC_TIER_NAME == "MusicBurst"
SOURCE_TIER_NAME == "Source"

\* logging levels of the standard library; parse_args stores None (the
\* root logger's default, WARNING), logging.INFO or logging.DEBUG
WARNING == 30
INFO == 20
DEBUG == 10

L_filename == <<"f","i","l","e","n","a","m","e">>
L_total_time == <<"t","o","t","a","l"," ","t","i","m","e">>
L_music_segments == <<"m","u","s","i","c"," ","s","e","g","m","e","n","t","s">>
L_music_time == <<"m","u","s","i","c"," ","t","i","m","e">>
L_singing_segments == <<"s","i","n","g","i","n","g"," ","s","e","g","m","e","n","t","s">>
L_singing_time == <<"s","i","n","g","i","n","g"," ","t","i","m","e">>

data_labels == <<L_total_time, L_music_segments, L_music_time,
                 L_singing_segments, L_singing_time>>

header == <<L_filename>> \o data_labels

EAF_SUFFIX == <<".","e","a","f">>

\* ------------------------------------------------------------ text helpers
RECURSIVE basename(_)
\* os.path.basename: what follows the last '/'
basename(p) ==
    IF \E k \in 1..Len(p) : p[k] = "/"
    THEN basename(Tail(p))
    ELSE p

RECURSIVE replace(_, _, _)
\* str.replace(old, new): every non-overlapping occurrence, left to right
replace(s, old, new) ==
    IF Len(s) < Len(old) THEN s
    ELSE IF SubSeq(s, 1, Len(old)) = old
         THEN new \o replace(SubSeq(s, Len(old) + 1, Len(s)), old, new)
         ELSE <<Head(s)>> \o replace(Tail(s), old, new)

Digit(d) == <<"0","1","2","3","4","5","6","7","8","9">>[d + 1]

RECURSIVE Str(_)
\* str(int), as csv.writer renders a non-string field
Str(n) ==
    IF n < 0 THEN <<"-">> \o Str(-n)
    ELSE IF n < 10 THEN <<Digit(n)>>
    ELSE Str(n \div 10) \o <<Digit(n % 10)>>

\* --------------------------------------------------------- OutputRecord
\* defaultdict(int): a key never set reads as 0
Get(data, label) == IF label \in DOMAIN data THEN data[label] ELSE 0

Put(data, label, value) ==
    [l \in DOMAIN data \cup {label} |-> IF l = label THEN value ELSE data[l]]

NewFilename(filename) == replace(basename(filename), EAF_SUFFIX, <<>>)

OutputRecord(filename) ==
    [filename |-> NewFilename(filename), data |-> <<>>]

\* variant: every non-positive counter is blanked
_blank_zero_nonpositive(data, entry) ==
    IF Get(data, entry) <= 0 THEN <<>> ELSE Str(Get(data, entry))

_blank_zero(data, entry) ==
    IF Get(data, entry) = 0 THEN <<>> ELSE Str(Get(data, entry))

fmt(rec) ==
    <<rec.filename>> \o [k \in 1..Len(data_labels) |-> _blank_zero(rec.data, data_labels[k])]

\* ------------------------------------------------------- the collaborator
\* A parsed document (pympi.Elan.Eaf): parses = the constructor returns,
\* warns = it prints a format-version warning, tiers = tier name -> ordered
\* annotation data (start, end, value), interval = get_full_time_interval().
Eaf(parses, warns, tiers, interval) ==
    [parses |-> parses, warns |-> warns, tiers |-> tiers, interval |-> interval]

get_tier_names(eaf) == DOMAIN eaf.tiers

get_annotation_data_for_tier(eaf, name) == eaf.tiers[name]

get_full_time_interval(eaf) == eaf.interval

\* ---------------------------------------------------------------- logging
\* One line of a text stream.  kind "log" is a record of the logging module,
\* "pympi" a warning printed by the collaborator, "csv" a row of the writer.
LogLine(level, msg, file) == [kind |-> "log", level |-> level, msg |-> msg, file |-> file]

PympiLine(file) == [kind |-> "pympi", level |-> WARNING, msg |-> "Parsing unknown version of ELAN spec", file |-> file]

CsvLine(fields) == [kind |-> "csv", fields |-> fields]

\* a record is emitted when its level reaches the configured level
Log(loglevel, level, msg, file) ==
    IF level >= loglevel THEN <<LogLine(level, msg, file)>> ELSE <<>>

\* ------------------------------------------------------ collect_music_data
\* variant: the MusicBurst loop filters by value like the Source loop
MusicStep_filtered(data, record) ==
    LET start == record[1]
        end == record[2]
        value == record[3]
        d1 == Put(data, L_music_segments, Get(data, L_music_segments) + 1)
    IN IF value # "1" THEN data
       ELSE Put(d1, L_music_time, Get(d1, L_music_time) + (end - start))

\* variant: music time is assigned, not accumulated
MusicStep_assign(data, record) ==
    LET start == record[1]
        end == record[2]
        d1 == Put(data, L_music_segments, Get(data, L_music_segments) + 1)
    IN Put(d1, L_music_time, end - start)

MusicStep(data, record) ==
    LET start == record[1]
        end == record[2]
        d1 == Put(data, L_music_segments, Get(data, L_music_segments) + 1)
    IN Put(d1, L_music_time, Get(d1, L_music_time) + (end - start))

RECURSIVE MusicLoop(_, _)
MusicLoop(data, records) ==
    IF records = <<>> THEN data
    ELSE MusicLoop(MusicStep(data, Head(records)), Tail(records))

\* variant: only the values "0" and "" are skipped
SourceStep_truthy(data, record) ==
    LET start == record[1]
        end == record[2]
        value == record[3]
        d1 == Put(data, L_singing_segments, Get(data, L_singing_segments) + 1)
    IN IF value \in {"0", ""} THEN data
       ELSE Put(d1, L_singing_time, Get(d1, L_singing_time) + (end - start))

SourceStep(data, record) ==
    LET start == record[1]
        end == record[2]
        value == record[3]
        d1 == Put(data, L_singing_segments, Get(data, L_singing_segments) + 1)
    IN IF value # "1" THEN data
       ELSE Put(d1, L_singing_time, Get(d1, L_singing_time) + (end - start))

RECURSIVE SourceLoop(_, _)
SourceLoop(data, records) ==
    IF records = <<>> THEN data
    ELSE SourceLoop(SourceStep(data, Head(records)), Tail(records))

TotalTime(data, eaf) ==
    LET start == get_full_time_interval(eaf)[1]
        end == get_full_time_interval(eaf)[2]
    IN Put(data, L_total_time, end - start)

\* the debug trace of one tier's loop: one record per segment
SegmentTrace(loglevel, name, records, file) ==
    IF DEBUG >= loglevel
    THEN [k \in 1..Len(records) |-> LogLine(DEBUG, name, file)]
    ELSE <<>>

\* variant: a missing Source tier raises InputError too
Raised_both_required(eaf) ==
    IF ~eaf.parses THEN "ParserFailure"
    ELSE IF MUSIC_TIER_NAME \notin get_tier_names(eaf) THEN "InputError"
    ELSE IF SOURCE_TIER_NAME \notin get_tier_names(eaf) THEN "InputError"
    ELSE ""

\* what the call raises: the collaborator's exception when the document
\* does not parse, InputError when the MusicBurst tier is missing, else
\* nothing
Raised(eaf) ==
    IF ~eaf.parses THEN "ParserFailure"
    ELSE IF MUSIC_TIER_NAME \notin get_tier_names(eaf) THEN "InputError"
    ELSE ""

\* The outcome of one call: raised is "" (returns output_record),
\* "InputError" (with message) or "ParserFailure" (the collaborator's own
\* exception); out is what the call writes to the logging stream, err what
\* the collaborator prints while stdout is redirected to stderr.
collect_music_data(eaf_file, loglevel) ==
    LET path == eaf_file.path
        eaf == eaf_file.eaf
        tier_names == get_tier_names(eaf)
        rec0 == OutputRecord(path)
        log1 == Log(loglevel, INFO, "Processing", path)
        err1 == IF eaf.warns THEN <<PympiLine(path)>> ELSE <<>>
        log2 == log1 \o Log(loglevel, DEBUG, "All tiers", path)
        music == get_annotation_data_for_tier(eaf, MUSIC_TIER_NAME)
        d1 == MusicLoop(rec0.data, music)
        log3 == log2 \o SegmentTrace(loglevel, MUSIC_TIER_NAME, music, path)
        hasSource == SOURCE_TIER_NAME \in tier_names
        source == get_annotation_data_for_tier(eaf, SOURCE_TIER_NAME)
        d2 == IF hasSource THEN SourceLoop(d1, source) ELSE d1
        log4 == IF hasSource
                THEN log3 \o SegmentTrace(loglevel, SOURCE_TIER_NAME, source, path)
                ELSE log3 \o Log(loglevel, WARNING, "Missing source tier in file", path)
        d3 == TotalTime(d2, eaf)
    IN IF Raised(eaf) = "ParserFailure"
       THEN [raised |-> "ParserFailure", message |-> "", out |-> log1,
             err |-> err1, output_record |-> rec0]
       ELSE IF Raised(eaf) = "InputError"
       THEN [raised |-> "InputError", message |-> "Missing MusicBurst tier in file",
             out |-> log2, err |-> err1, output_record |-> rec0]
       ELSE [raised |-> "", message |-> "", out |-> log4, err |-> err1,
             output_record |-> [rec0 EXCEPT !.data = d3]]

\* ------------------------------------------------------------------ inputs
SeqsUpTo(S, n) == UNION {[1..k -> S] : k \in 0..n}

Times == 0..MaxTime

Values == {"1", "0", "", "11"}

\* annotation data as the collaborator hands it over; a malformed document
\* may carry a segment that ends before it starts
Segments == {<<s, e, v>> : s \in Times, e \in Times, v \in {"1", ""}}

\* annotation data of a well-formed document (end >= start), any value
ValuedSegments == {<<s, e, v>> \in Times \X Times \X Values : s <= e}

Intervals == {<<s, e>> \in Times \X Times : s <= e}

Tiers(names, music, source) ==
    [n \in names |-> IF n = MUSIC_TIER_NAME THEN music
                     ELSE IF n = SOURCE_TIER_NAME THEN source
                     ELSE <<<<0, MaxTime, "noise">>>>]

P_a == <<"a">>
P_dir == <<"d", "/">>
P_e == <<".", "e">>
P_af == <<"a", "f">>

Pieces == {P_a, P_dir, EAF_SUFFIX, P_e, P_af}

RECURSIVE Concat(_)
Concat(ps) == IF ps = <<>> THEN <<>> ELSE Head(ps) \o Concat(Tail(ps))

Paths == {Concat(ps) : ps \in SeqsUpTo(Pieces, MaxPieces)} \ {<<>>}

File(path, eaf) == [path |-> path, eaf |-> eaf]

BothTiers == {MUSIC_TIER_NAME, SOURCE_TIER_NAME}

\* the files of a batch: complete, without Source, without MusicBurst,
\* unparsable, and with a MusicBurst tier of one empty segment
F_good ==
    File(P_a \o EAF_SUFFIX,
         Eaf(TRUE, TRUE, Tiers(BothTiers \cup {"Other"}, <<<<0, 1, "">>, <<1, 2, "">>>>,
                               <<<<0, 1, "1">>, <<1, 2, "0">>>>), <<0, 2>>))

F_nosource ==
    File(P_dir \o <<"b">> \o EAF_SUFFIX,
         Eaf(TRUE, FALSE, Tiers({MUSIC_TIER_NAME}, <<<<0, 2, "">>>>, <<>>), <<0, 2>>))

F_nomusic ==
    File(<<"c">> \o EAF_SUFFIX,
         Eaf(TRUE, TRUE, Tiers({SOURCE_TIER_NAME}, <<>>, <<<<0, 1, "1">>>>), <<0, 1>>))

F_corrupt == File(<<"x">> \o EAF_SUFFIX, Eaf(FALSE, TRUE, Tiers({}, <<>>, <<>>), <<0, 0>>))

F_point ==
    File(<<"p">> \o EAF_SUFFIX,
         Eaf(TRUE, FALSE, Tiers(BothTiers, <<<<1, 1, "">>>>, <<<<1, 1, "1">>>>), <<1, 1>>))

BatchFiles == {F_good, F_nosource, F_nomusic, F_corrupt, F_point}

Batches == SeqsUpTo(BatchFiles, MaxFiles) \ {<<>>}

\* single documents, each varying one part over its whole bounded range
PathFile(p) == File(p, F_good.eaf)

MusicFile(names, music) ==
    File(P_a \o EAF_SUFFIX,
         Eaf(TRUE, FALSE, Tiers(names, music, <<<<0, 1, "1">>>>), <<0, MaxTime>>))

SourceFile(source) ==
    File(P_a \o EAF_SUFFIX,
         Eaf(TRUE, FALSE, Tiers(BothTiers, <<<<0, 1, "">>>>, source), <<0, MaxTime>>))

IntervalFile(names, interval) ==
    File(P_a \o EAF_SUFFIX,
         Eaf(TRUE, FALSE, Tiers(names, <<<<0, 1, "">>>>, <<<<0, 1, "1">>>>), interval))

LogLevels == {WARNING, INFO, DEBUG}

Outputs == {"stdout", "file"}

\* ------------------------------------------------------------------- state
VARIABLES
    args,           \* the parsed command line: eaf_files, output, loglevel
    pc,             \* where main() is: "start", "loop", "done", "crashed"
    idx,            \* position of the for loop in args.eaf_files
    output_record,  \* the record of the last successful collect_music_data
    stdout,         \* lines written to standard output
    stderr,         \* lines written to standard error
    outfile,        \* lines written to the file opened for -o <csv_file>
    closed          \* number of calls of args.output.close()

vars == <<args, pc, idx, output_record, stdout, stderr, outfile, closed>>

NoRecord == [filename |-> <<>>, data |-> <<>>]

\* parse_args: at least one file; -o - is standard output, anything else a
\* file opened for writing; no verbosity flag leaves the level at WARNING
Single(f) == [eaf_files |-> <<f>>, output |-> "file", loglevel |-> WARNING]

Init ==
    /\ \/ args \in [eaf_files : Batches, output : Outputs, loglevel : LogLevels]
       \/ \E p \in Paths : args = Single(PathFile(p))
       \/ \E music \in SeqsUpTo(Segments, MaxSegs) :
             \E names \in {{MUSIC_TIER_NAME}, BothTiers} :
                args = Single(MusicFile(names, music))
       \/ \E source \in SeqsUpTo(ValuedSegments, MaxSegs) :
             args = Single(SourceFile(source))
       \/ \E interval \in Intervals :
             \E names \in {{MUSIC_TIER_NAME}, BothTiers, BothTiers \cup {"Other"}} :
                args = Single(IntervalFile(names, interval))
    /\ pc = "start"
    /\ idx = 1
    /\ output_record = NoRecord
    /\ stdout = <<>>
    /\ stderr = <<>>
    /\ outfile = <<>>
    /\ closed = 0

\* output.writerow(row): the writer appends to args.output
Write(lines, to_stdout, to_stderr) ==
    /\ stderr' = stderr \o to_stderr
    /\ IF args.output = "stdout"
       THEN /\ stdout' = stdout \o to_stdout \o lines
            /\ outfile' = outfile
       ELSE /\ stdout' = stdout \o to_stdout
            /\ outfile' = outfile \o lines

\* setup_logging (records go to sys.stdout) and setup_output (header row)
SetupOutput ==
    /\ pc = "start"
    /\ Write(<<CsvLine(header)>>, Log(args.loglevel, DEBUG, "Writing output header", <<>>), <<>>)
    /\ pc' = "loop"
    /\ UNCHANGED <<args, idx, output_record, closed>>

Current == collect_music_data(args.eaf_files[idx], args.loglevel)

\* one iteration of the loop whose call returns: the row is written
WriteRow ==
    /\ pc = "loop"
    /\ idx <= Len(args.eaf_files)
    /\ Current.raised = ""
    /\ output_record' = Current.output_record
    /\ Write(<<CsvLine(fmt(Current.output_record))>>, Current.out, Current.err)
    /\ idx' = idx + 1
    /\ UNCHANGED <<args, pc, closed>>

\* variant: InputError ends the loop (break)
SkipFile_break ==
    /\ pc = "loop"
    /\ idx <= Len(args.eaf_files)
    /\ Current.raised = "InputError"
    /\ Write(<<>>, Current.out \o Log(args.loglevel, WARNING, Current.message,
                                       args.eaf_files[idx].path), Current.err)
    /\ idx' = Len(args.eaf_files) + 1
    /\ UNCHANGED <<args, pc, output_record, closed>>

\* one iteration whose call raises InputError: warning, continue
SkipFile ==
    /\ pc = "loop"
    /\ idx <= Len(args.eaf_files)
    /\ Current.raised = "InputError"
    /\ Write(<<>>, Current.out \o Log(args.loglevel, WARNING, Current.message,
                                       args.eaf_files[idx].path), Current.err)
    /\ idx' = idx + 1
    /\ UNCHANGED <<args, pc, output_record, closed>>

\* variant: every exception of the call is caught and the file skipped
ParserFailure_caught ==
    /\ pc = "loop"
    /\ idx <= Len(args.eaf_files)
    /\ Current.raised = "ParserFailure"
    /\ Write(<<>>, Current.out, Current.err)
    /\ idx' = idx + 1
    /\ UNCHANGED <<args, pc, output_record, closed>>

\* one iteration whose call raises anything else: main() does not catch it
ParserFailure ==
    /\ pc = "loop"
    /\ idx <= Len(args.eaf_files)
    /\ Current.raised = "ParserFailure"
    /\ Write(<<>>, Current.out, Current.err)
    /\ pc' = "crashed"
    /\ UNCHANGED <<args, idx, output_record, closed>>

\* variant: the output is closed whatever it is
CloseOutput_always ==
    /\ pc = "loop"
    /\ idx > Len(args.eaf_files)
    /\ closed' = closed + 1
    /\ pc' = "done"
    /\ UNCHANGED <<args, idx, output_record, stdout, stderr, outfile>>

\* after the loop: the output is closed unless it is sys.stdout
CloseOutput ==
    /\ pc = "loop"
    /\ idx > Len(args.eaf_files)
    /\ closed' = IF args.output # "stdout" THEN closed + 1 ELSE closed
    /\ pc' = "done"
    /\ UNCHANGED <<args, idx, output_record, stdout, stderr, outfile>>

Next == SetupOutput \/ WriteRow \/ SkipFile \/ ParserFailure \/ CloseOutput

Spec == Init /\ [][Next]_vars

\* ------------------------------------------------- what the claims speak of
IsCsv(line) == line.kind = "csv"

\* the stream the CSV writer appends to
Sink == IF args.output = "stdout" THEN stdout ELSE outfile

\* the rows the writer has written, in order
CsvRows ==
    LET rows == SelectSeq(Sink, IsCsv)
    IN [k \in 1..Len(rows) |-> rows[k].fields]

Parses(f) == f.eaf.parses

HasMusic(f) == MUSIC_TIER_NAME \in DOMAIN f.eaf.tiers

HasSource(f) == SOURCE_TIER_NAME \in DOMAIN f.eaf.tiers

NoParserFailure == \A k \in 1..Len(args.eaf_files) : Parses(args.eaf_files[k])

\* the files among the first n of the batch that contain a MusicBurst tier
MusicFilesUpTo(n) == SelectSeq(SubSeq(args.eaf_files, 1, n), HasMusic)

RowOf(f) == fmt(collect_music_data(f, args.loglevel).output_record)

ExpectedRows(n) ==
    <<header>> \o [k \in 1..Len(MusicFilesUpTo(n)) |-> RowOf(MusicFilesUpTo(n)[k])]

\* the loop has just completed an iteration that wrote a row
Acted ==
    /\ pc \in {"loop", "done"}
    /\ idx > 1
    /\ Parses(args.eaf_files[idx - 1])
    /\ HasMusic(args.eaf_files[idx - 1])

LastFile == args.eaf_files[idx - 1]

LastRow == CsvRows[Len(CsvRows)]

Counter(label) == Get(output_record.data, label)

RECURSIVE SumOfDurations(_)
SumOfDurations(segs) ==
    IF segs = <<>> THEN 0
    ELSE (Head(segs)[2] - Head(segs)[1]) + SumOfDurations(Tail(segs))

IsOne(seg) == seg[3] = "1"

MusicOf(f) == f.eaf.tiers[MUSIC_TIER_NAME]

SourceOf(f) == f.eaf.tiers[SOURCE_TIER_NAME]

WellFormed(segs) == \A k \in 1..Len(segs) : segs[k][2] >= segs[k][1]

\* ------------------------------------------------------------------- C1
\* C1: when no file of the batch fails to parse, the rows written to the
\* CSV sink are the header row first, then one row for each processed file
\* that contains a MusicBurst tier, in input order; a file without the tier
\* adds no row and the loop goes on to the end of the list.
C1_RowsInOrder ==
    NoParserFailure =>
        /\ pc = "start" => CsvRows = <<>>
        /\ pc # "start" => CsvRows = ExpectedRows(idx - 1)
        /\ pc # "start" => CsvRows[1] = <<L_filename, L_total_time, L_music_segments,
                                          L_music_time, L_singing_segments, L_singing_time>>
        /\ pc = "done" => idx = Len(args.eaf_files) + 1
        /\ pc # "crashed"

C1_Witness ==
    /\ pc = "done"
    /\ NoParserFailure
    /\ Len(args.eaf_files) = 3
    /\ ~HasMusic(args.eaf_files[1])
    /\ HasMusic(args.eaf_files[2])
    /\ HasMusic(args.eaf_files[3])
    /\ args.eaf_files[2] # args.eaf_files[3]
    /\ Len(CsvRows) = 3

\* ------------------------------------------------------------------- C2
\* C2: the record returned for a document with a MusicBurst tier of N
\* segments has music segments = N and music time = the sum of end - start
\* over them, whatever their values and whatever the other tiers hold.
C2_MusicCounters ==
    Acted =>
        /\ Counter(L_music_segments) = Len(MusicOf(LastFile))
        /\ Counter(L_music_time) = SumOfDurations(MusicOf(LastFile))

C2_Witness ==
    /\ Acted
    /\ Len(MusicOf(LastFile)) = 2
    /\ MusicOf(LastFile)[1][3] # MusicOf(LastFile)[2][3]
    /\ Counter(L_music_segments) = 2
    /\ Counter(L_music_time) = 1

\* ------------------------------------------------------------------- C3
\* C3: with a Source tier, singing segments is the number of Source
\* segments whose value is exactly "1" and singing time the sum of
\* end - start over exactly those; any other value adds nothing.
C3_SingingCounters ==
    (Acted /\ HasSource(LastFile)) =>
        /\ Counter(L_singing_segments) = Len(SelectSeq(SourceOf(LastFile), IsOne))
        /\ Counter(L_singing_time) = SumOfDurations(SelectSeq(SourceOf(LastFile), IsOne))

C3_Witness ==
    /\ Acted
    /\ HasSource(LastFile)
    /\ Len(SourceOf(LastFile)) = 2
    /\ SourceOf(LastFile)[1] = <<0, 1, "11">>
    /\ SourceOf(LastFile)[2] = <<0, 1, "1">>
    /\ Counter(L_singing_segments) = 1
    /\ Counter(L_singing_time) = 1

\* ------------------------------------------------------------------- C4
\* C4: the row of a record has exactly six fields: the filename, then the
\* counters in the order of the header; a counter field is empty exactly
\* when the counter is 0 (also when it was never set), else it is the
\* counter's value.
C4_RowFormat ==
    Acted =>
        /\ Len(LastRow) = 6
        /\ Len(header) = 6
        /\ LastRow[1] = output_record.filename
        /\ \A k \in 2..6 :
              /\ LastRow[k] = <<>> <=> Counter(header[k]) = 0
              /\ Counter(header[k]) # 0 => LastRow[k] = Str(Counter(header[k]))
        /\ LastRow[2] = <<>> <=> Counter(L_total_time) = 0
        /\ LastRow[3] = <<>> <=> Counter(L_music_segments) = 0
        /\ LastRow[4] = <<>> <=> Counter(L_music_time) = 0
        /\ LastRow[5] = <<>> <=> Counter(L_singing_segments) = 0
        /\ LastRow[6] = <<>> <=> Counter(L_singing_time) = 0

C4_Witness ==
    /\ Acted
    /\ L_music_segments \notin DOMAIN output_record.data
    /\ LastRow[3] = <<>>
    /\ LastRow[2] = <<"1">>
    /\ LastRow[5] = <<"1">>

\* ------------------------------------------------------------------- C5
RECURSIVE AfterLastSlash(_)
AfterLastSlash(p) ==
    IF p = <<>> \/ p[Len(p)] = "/" THEN <<>>
    ELSE AfterLastSlash(SubSeq(p, 1, Len(p) - 1)) \o <<p[Len(p)]>>

EndsWithEaf(s) == Len(s) >= 4 /\ SubSeq(s, Len(s) - 3, Len(s)) = EAF_SUFFIX

StripOneTrailingEaf(s) == IF EndsWithEaf(s) THEN SubSeq(s, 1, Len(s) - 4) ELSE s

\* C5: the record's filename is the base name of the path with one
\* trailing .eaf removed; any other occurrence of .eaf in it is kept.
C5_FilenameStripsOneSuffix ==
    Acted => output_record.filename = StripOneTrailingEaf(AfterLastSlash(LastFile.path))

\* ------------------------------------------------------------------- C6
WithSource(f, source) ==
    File(f.path, [f.eaf EXCEPT !.tiers =
        [n \in DOMAIN f.eaf.tiers \cup {SOURCE_TIER_NAME} |->
            IF n = SOURCE_TIER_NAME THEN source ELSE f.eaf.tiers[n]]])

DataWithSource(f, source) ==
    collect_music_data(WithSource(f, source), args.loglevel).output_record.data

MusicTimeField == LastRow[4]

MusicSegmentsField == LastRow[3]

AllEmpty(segs) == \A k \in 1..Len(segs) : segs[k][2] = segs[k][1]

\* C7 as stated: with end >= start for every MusicBurst segment, the music
\* time field is blank only if the tier has no segment.
C7_BlankOnlyIfNoSegment ==
    (Acted /\ WellFormed(MusicOf(LastFile)) /\ MusicTimeField = <<>>) =>
        Len(MusicOf(LastFile)) = 0

\* C7 as amended: with end >= start for every MusicBurst segment, the music
\* time field is blank exactly when every segment has end = start (among
\* them the tier without segments); the music segments field is blank
\* exactly when there is no segment.
C7_BlankIffNoDuration ==
    (Acted /\ WellFormed(MusicOf(LastFile))) =>
        /\ MusicTimeField = <<>> <=> AllEmpty(MusicOf(LastFile))
        /\ MusicSegmentsField = <<>> <=> Len(MusicOf(LastFile)) = 0

C7_Witness ==
    /\ Acted
    /\ WellFormed(MusicOf(LastFile))
    /\ Len(MusicOf(LastFile)) = 2
    /\ MusicSegmentsField = <<"2">>
    /\ MusicTimeField = <<>>

\* ------------------------------------------------------------------- C8
\* C8 as stated: every run that has ended, whatever the sink and whatever
\* happened to the files, has closed the sink exactly once.
C8_ClosedExactlyOnce == pc \in {"done", "crashed"} => closed = 1

C8_CloseInvariant ==
    /\ closed <= 1
    /\ closed = 1 => /\ pc = "done"
                     /\ args.output = "file"
                     /\ idx = Len(args.eaf_files) + 1
    /\ (pc = "done" /\ args.output = "file") => closed = 1
    /\ args.output = "stdout" => closed = 0
    /\ pc = "crashed" => closed = 0

\* C8 as amended: main() closes the sink at most once; it closes it exactly
\* once when the sink is a file and every input file has been processed
\* without a parser failure, and only then; it never closes standard
\* output and closes nothing after a parser failure; nothing is written to
\* the sink after the close.
C8_ClosedOnceWhenFile ==
    /\ []C8_CloseInvariant
    /\ [][closed >= 1 => Sink' = Sink]_vars
    /\ [][closed' # closed => (idx > Len(args.eaf_files) /\ Sink' = Sink)]_vars

C8_Witness ==
    /\ closed = 1
    /\ Len(args.eaf_files) = 3
    /\ Len(CsvRows) = 3

\* ------------------------------------------------------------------- C9
AtFile == pc = "loop" /\ idx <= Len(args.eaf_files)

C9_CrashInvariant ==
    pc = "crashed" =>
        /\ idx <= Len(args.eaf_files)
        /\ ~Parses(args.eaf_files[idx])
        /\ \A k \in 1..(idx - 1) : Parses(args.eaf_files[k])
        /\ CsvRows = ExpectedRows(idx - 1)

\* C9: a parser failure on file k is not caught: the header and the rows of
\* the files before k are written, the run stops there, with no row for
\* file k or a later one and no later file processed; an InputError on
\* file k writes no row and the loop goes on with file k + 1.
C9_ParserFailureIsFatal ==
    /\ []C9_CrashInvariant
    /\ [][pc # "crashed"]_vars
    /\ [][(AtFile /\ ~Parses(args.eaf_files[idx])) =>
             (pc' = "crashed" /\ idx' = idx /\ CsvRows' = CsvRows)]_vars
    /\ [][(AtFile /\ Parses(args.eaf_files[idx]) /\ ~HasMusic(args.eaf_files[idx])) =>
             (pc' = "loop" /\ idx' = idx + 1 /\ CsvRows' = CsvRows)]_vars

C9_Witness ==
    /\ pc = "crashed"
    /\ idx = 3
    /\ Len(args.eaf_files) = 3
    /\ ~HasMusic(args.eaf_files[1])
    /\ HasMusic(args.eaf_files[2])
    /\ Len(CsvRows) = 2

\* ------------------------------------------------------------------ C10
\* C10: when the sink is standard output, every line on standard output is
\* a CSV row (the header or a data row): no log record and no collaborator
\* warning is written there.
C10_StdoutOnlyCsv ==
    args.output = "stdout" => \A k \in 1..Len(stdout) : stdout[k].kind = "csv"

====
